---- MODULE Spec2Model ----
(***************************************************************************)
(* ESP32_PrinterBridge, main/printer_handler.c: the printer interface      *)
(* scanner (check_device_for_printer_interfaces, is_printer_interface,     *)
(* save_printer_endpoint_details) and the transfer coordinator             *)
(* (send_print_job, print_transfer_callback) around the process-wide       *)
(* saved_printer record.                                                   *)
(*                                                                         *)
(* Three execution contexts share saved_printer without any lock: the      *)
(* task that scans an attached device, the task that calls send_print_job, *)
(* and the USB host context that invokes the completion callback.  The     *)
(* USB host library and FreeRTOS are the environment: the result of every  *)
(* call into them is a nondeterministic choice.  Since nothing orders the  *)
(* accesses to saved_printer, the struct copy of line 185 is a sequence of  *)
(* stores, one per field, in whatever order the build emits them, and the   *)
(* callback is a sequence of steps, one per library call, each reading      *)
(* saved_printer when it is reached.                                        *)
(***************************************************************************)
EXTENDS Integers, Sequences, FiniteSets, TLC

\* ------------------------------------------------------------------ bounds
MaxIntf  == 2   \* bNumInterfaces of a configuration descriptor is 0..MaxIntf
MaxEps   == 2   \* bNumEndpoints of an interface descriptor is 0..MaxEps
MaxScans == 1   \* calls of check_device_for_printer_interfaces
MaxJobs  == 2   \* calls of send_print_job
MaxSems  == 2   \* semaphores the heap can hold; xSemaphoreCreateBinary fails beyond

\* ------------------------------------------------------- program constants
NULL == 0
USB_CLASS_PRINTER == 7
EP_UNSET == 255
USB_BM_ATTRIBUTES_XFERTYPE_MASK == 3
USB_BM_ATTRIBUTES_XFER_BULK == 2
USB_B_ENDPOINT_ADDRESS_EP_DIR_MASK == 128

\* x & mask for the two masks the code uses (a low-bits mask and a single bit)
XferType(bmAttributes) == bmAttributes % (USB_BM_ATTRIBUTES_XFERTYPE_MASK + 1)
DirBit(bEndpointAddress) ==
    (bEndpointAddress \div USB_B_ENDPOINT_ADDRESS_EP_DIR_MASK) % 2

\* ------------------------------------------------------------ input domains
\* Handles handed to the scanner: absent, or the one attached device / client.
DevHandles    == {NULL, 1}
ClientHandles == {NULL, 1}

\* What usb_parse_endpoint_descriptor_by_index returns for one endpoint index:
\* NULL (ok = FALSE) or an endpoint descriptor.
NoEp == [ok |-> FALSE, bmAttributes |-> 0, bEndpointAddress |-> 0]
EpDescs ==
    {NoEp} \cup [ok : {TRUE}, bmAttributes : {2}, bEndpointAddress : {1, 2, 129}]
           \cup [ok : {TRUE}, bmAttributes : {3}, bEndpointAddress : {1, 129}]

EpLists == UNION {[1..k -> EpDescs] : k \in 0..MaxEps}

\* What usb_parse_interface_descriptor returns for one interface index:
\* NULL (ok = FALSE) or an interface descriptor with its endpoints.
NoIntf == [ok |-> FALSE, bInterfaceClass |-> 0, bInterfaceProtocol |-> 0, eps |-> <<>>]
IntfDescs ==
    {NoIntf} \cup [ok : {TRUE}, bInterfaceClass : {USB_CLASS_PRINTER, 8},
                   bInterfaceProtocol : {0, 1, 2}, eps : EpLists]

\* The interface descriptors offered while print jobs run beside the scanner.
JobIntfDescs ==
    {[ok |-> TRUE, bInterfaceClass |-> 8, bInterfaceProtocol |-> 0, eps |-> <<>>],
     [ok |-> TRUE, bInterfaceClass |-> USB_CLASS_PRINTER, bInterfaceProtocol |-> 1,
      eps |-> <<[ok |-> TRUE, bmAttributes |-> 2, bEndpointAddress |-> 1]>>]}

\* ------------------------------------------------------------------- state
VARIABLES
    saved_printer,  \* static printer_device_t saved_printer
    sem_count,      \* the binary semaphores created so far: handle h -> 0 or 1
    scan,           \* check_device_for_printer_interfaces: position and locals
    scan_ret,       \* "none", or what the last scan returned: "true" or "false"
    seen,           \* history of the scan in progress / last finished
    nScans,         \* scans started so far
    job,            \* send_print_job: position and locals of the call in progress
    jobs,           \* one record per send_print_job call: its resources and result
    claimed,        \* USB host library: the interface numbers currently claimed
    copying,        \* line 185 in progress: the local record and the fields to store
    callback        \* print_transfer_callback in progress: position and transfer

vars == <<saved_printer, sem_count, scan, scan_ret, seen, nScans, job, jobs, claimed,
          copying, callback>>

scanvars == <<saved_printer, sem_count, scan, scan_ret, seen, nScans, copying>>
jobvars  == <<job, jobs, claimed, callback>>

\* printer_device_t, zero-initialised static storage
EmptyPrinter ==
    [dev_hdl |-> NULL, client_hdl |-> NULL, interface_number |-> 0,
     bulk_out_ep |-> 0, bulk_in_ep |-> 0, transfer_done_sem |-> NULL]

ScanIdle == [pc |-> "idle", dev_hdl |-> NULL, client_hdl |-> NULL,
             bNumInterfaces |-> 0, i |-> 0, is_printer |-> FALSE]

\* The fields of printer_device_t (lines 28-33).
Fields == {"dev_hdl", "client_hdl", "interface_number", "bulk_out_ep", "bulk_in_ep",
           "transfer_done_sem"}

\* The stores of line 185 that change saved_printer: storing the value a field
\* already holds changes nothing any task can see, and is left out.
FieldsToStore(printer) == {field \in Fields : printer[field] # saved_printer[field]}

\* No copy in progress; during one, todo holds the fields line 185 has not
\* stored yet.
NoCopy == [printer |-> EmptyPrinter, todo |-> {}]

NoSeen == [idx |-> 0, ok |-> FALSE, class |-> 0, protocol |-> 0,
           out |-> EP_UNSET, in |-> EP_UNSET]

SeenInit == [config |-> FALSE,      \* handles present and descriptor obtained
             before |-> EmptyPrinter, \* saved_printer when the scan was called
             nclass7 |-> 0,          \* parsed interfaces of class 0x07 so far
             last7 |-> NoSeen,       \* the last parsed interface of class 0x07
             cur |-> NoSeen]         \* the interface processed last

\* ------------------------------------------------- is_printer_interface
is_printer_interface_noclass(intf_desc) == intf_desc.bInterfaceProtocol

is_printer_interface(intf_desc) ==
    IF intf_desc.bInterfaceClass = USB_CLASS_PRINTER
    THEN intf_desc.bInterfaceProtocol
    ELSE 0

\* ---------------------------------------- save_printer_endpoint_details
\* Lines 147-169: the endpoint loop, from endpoint ep on, over the local printer.
RECURSIVE ParseEndpoints(_, _, _)
ParseEndpoints(printer, eps, ep) ==
    IF ep > Len(eps) THEN printer
    ELSE LET ep_desc == eps[ep] IN
         IF ~ep_desc.ok THEN ParseEndpoints(printer, eps, ep + 1)
         ELSE IF XferType(ep_desc.bmAttributes) = USB_BM_ATTRIBUTES_XFER_BULK
         THEN IF DirBit(ep_desc.bEndpointAddress) # 0
              THEN ParseEndpoints([printer EXCEPT !.bulk_in_ep = ep_desc.bEndpointAddress],
                                  eps, ep + 1)
              ELSE ParseEndpoints([printer EXCEPT !.bulk_out_ep = ep_desc.bEndpointAddress],
                                  eps, ep + 1)
         ELSE ParseEndpoints(printer, eps, ep + 1)

\* Lines 138-169: the local record after the endpoint loop.
LocalPrinter(dev_hdl, client_hdl, interface_num, intf_desc) ==
    ParseEndpoints([dev_hdl |-> dev_hdl, client_hdl |-> client_hdl,
                    interface_number |-> interface_num,
                    bulk_out_ep |-> EP_UNSET, bulk_in_ep |-> EP_UNSET,
                    transfer_done_sem |-> NULL],
                   intf_desc.eps, 1)

\* Line 172: the required OUT endpoint was found.
HasOutEndpoint_always(printer) == TRUE

HasOutEndpoint(printer) == printer.bulk_out_ep # EP_UNSET

\* xSemaphoreCreateBinary: NULL, or (heap permitting) a new empty semaphore.
SemCreateResults == {NULL} \cup (IF Len(sem_count) < MaxSems THEN {Len(sem_count) + 1} ELSE {})

\* Lines 135-184 on the shared state, given what xSemaphoreCreateBinary
\* returns: an early return, or the local record ready for the copy of line 185.
SavePrinterEndpointDetails(dev_hdl, client_hdl, interface_num, intf_desc, created) ==
    LET printer == LocalPrinter(dev_hdl, client_hdl, interface_num, intf_desc) IN
    IF ~HasOutEndpoint(printer)
    THEN /\ created = NULL
         /\ UNCHANGED <<sem_count, copying>>
    ELSE /\ created \in SemCreateResults
         /\ IF created = NULL
            THEN UNCHANGED <<sem_count, copying>>
            ELSE /\ sem_count' = Append(sem_count, 0)
                 /\ copying' = [printer |-> [printer EXCEPT !.transfer_done_sem = created],
                                todo |-> FieldsToStore(
                                    [printer EXCEPT !.transfer_done_sem = created])]

\* Line 185, saved_printer = printer: a plain struct assignment to a static
\* that other tasks read without a lock.  The order and the width of its stores
\* are the compiler's: each field is stored once, in any order.  (A store as
\* wide as several fields is their stores with no step of a reader between.)
StoreSavedPrinter(field) ==
    /\ field \in copying.todo
    /\ saved_printer' = [saved_printer EXCEPT ![field] = copying.printer[field]]
    /\ copying' = IF copying.todo = {field} THEN NoCopy
                  ELSE [copying EXCEPT !.todo = @ \ {field}]
    /\ UNCHANGED <<sem_count, scan, scan_ret, seen, nScans, jobvars>>

\* The semaphores alive: every one created, since no path of the file deletes one.
LiveSems == 1..Len(sem_count)

\* ---------------------------------------------------- scan history
\* The bulk endpoints an interface descriptor holds, stated on the descriptor.
BulkIdx(eps, dir) ==
    {k \in 1..Len(eps) : /\ eps[k].ok
                         /\ eps[k].bmAttributes % 4 = 2
                         /\ (eps[k].bEndpointAddress >= 128) = dir}

LastOf(S) == CHOOSE k \in S : \A m \in S : m <= k

BulkAddr(eps, dir) ==
    IF BulkIdx(eps, dir) = {} THEN EP_UNSET
    ELSE eps[LastOf(BulkIdx(eps, dir))].bEndpointAddress

SeenOf(idx, intf_desc) ==
    [idx |-> idx, ok |-> intf_desc.ok, class |-> intf_desc.bInterfaceClass,
     protocol |-> intf_desc.bInterfaceProtocol,
     out |-> BulkAddr(intf_desc.eps, FALSE), in |-> BulkAddr(intf_desc.eps, TRUE)]

\* ------------------------------- check_device_for_printer_interfaces
\* Lines 46-67: the call, the handle checks and the configuration descriptor.
ScanCall(dev_hdl, client_hdl, got_config, bNumInterfaces) ==
    /\ scan.pc = "idle"
    /\ nScans < MaxScans
    /\ nScans' = nScans + 1
    /\ IF dev_hdl = NULL \/ client_hdl = NULL \/ ~got_config
       THEN /\ scan' = ScanIdle
            /\ scan_ret' = "false"
            /\ seen' = [SeenInit EXCEPT !.before = saved_printer]
       ELSE /\ scan' = [pc |-> "loop", dev_hdl |-> dev_hdl, client_hdl |-> client_hdl,
                        bNumInterfaces |-> bNumInterfaces, i |-> 0, is_printer |-> FALSE]
            /\ scan_ret' = "none"
            /\ seen' = [SeenInit EXCEPT !.before = saved_printer, !.config = TRUE]
    /\ UNCHANGED <<saved_printer, sem_count, copying, jobvars>>

\* Lines 71-100: one iteration of the interface loop, up to the copy of line
\* 185 when the interface is saved.  (The comparison of line 87 and the check
\* of line 94 only choose what is logged.)
ScanInterface(intf_desc, created) ==
    /\ scan.pc = "loop"
    /\ copying.todo = {}
    /\ scan.i < scan.bNumInterfaces
    /\ IF ~intf_desc.ok
       THEN /\ created = NULL
            /\ scan' = [scan EXCEPT !.i = @ + 1]
            /\ UNCHANGED <<sem_count, copying>>
       ELSE IF is_printer_interface(intf_desc) # 0
       THEN /\ scan' = [scan EXCEPT !.i = @ + 1, !.is_printer = TRUE]
            /\ SavePrinterEndpointDetails(scan.dev_hdl, scan.client_hdl, scan.i,
                                          intf_desc, created)
       ELSE /\ created = NULL
            /\ scan' = [scan EXCEPT !.i = @ + 1]
            /\ UNCHANGED <<sem_count, copying>>
    /\ UNCHANGED saved_printer
    /\ seen' = [seen EXCEPT
                  !.cur = SeenOf(scan.i, intf_desc),
                  !.nclass7 = IF intf_desc.ok /\ intf_desc.bInterfaceClass = 7
                              THEN @ + 1 ELSE @,
                  !.last7 = IF intf_desc.ok /\ intf_desc.bInterfaceClass = 7
                            THEN SeenOf(scan.i, intf_desc) ELSE @]
    /\ UNCHANGED <<scan_ret, nScans, jobvars>>

\* Line 102: return is_printer.
ScanReturn ==
    /\ scan.pc = "loop"
    /\ copying.todo = {}
    /\ scan.i >= scan.bNumInterfaces
    /\ scan_ret' = IF scan.is_printer THEN "true" ELSE "false"
    /\ scan' = ScanIdle
    /\ UNCHANGED <<saved_printer, sem_count, seen, nScans, copying, jobvars>>

\* ------------------------------------------------------- send_print_job
JobIdle == [pc |-> "idle", wait_sem |-> NULL, ret |-> "none"]

\* No callback running; during one, pc is its next line and j its transfer's job.
CallbackIdle == [pc |-> "idle", j |-> 0]

\* The record kept for one call: what it claimed, allocated and returned.
NewJob ==
    [ret      |-> "none",   \* the esp_err_t returned, "none" while the call runs
     claims   |-> 0,        \* usb_host_interface_claim calls
     allocs   |-> 0,        \* usb_host_transfer_alloc calls
     submits  |-> 0,        \* usb_host_transfer_submit calls
     takes    |-> 0,        \* xSemaphoreTake calls
     holds    |-> FALSE,    \* the claim succeeded
     intf     |-> 0,        \* the interface number claimed
     ep       |-> 0,        \* transfer->bEndpointAddress
     rel      |-> <<>>,     \* interface numbers of the release calls made for it
     xfer     |-> "none",   \* transfer: none, allocated, submitted (in flight), freed
     frees    |-> 0,        \* usb_host_transfer_free calls on its transfer
     status   |-> "none",   \* transfer->status seen by its completion callback
     cb       |-> "none",   \* callback finished "before" or "after" the wait ended
     sem      |-> NULL,     \* the semaphore handle the call waited on
     nulldev  |-> FALSE]    \* saved_printer.dev_hdl was NULL when it was called

ClaimErrors  == {"ESP_ERR_INVALID_STATE"}
AllocErrors  == {"ESP_ERR_NO_MEM"}
SubmitErrors == {"ESP_ERR_NOT_FINISHED"}
TransferStatuses ==
    {"USB_TRANSFER_STATUS_COMPLETED", "USB_TRANSFER_STATUS_ERROR"}

cur_job == Len(jobs)

\* Lines 197-204: the two not-ready checks.
NotReady_epOnly(printer) == printer.bulk_out_ep = EP_UNSET

NotReady(printer) == printer.dev_hdl = NULL \/ printer.bulk_out_ep = EP_UNSET

\* usb_host_interface_claim: the library refuses an interface already claimed.
ClaimResults(intf) == ClaimErrors \cup (IF intf \in claimed THEN {} ELSE {"ESP_OK"})

\* usb_host_interface_release(saved_printer.client_hdl, saved_printer.dev_hdl,
\* saved_printer.interface_number), called on behalf of job j (lines 229, 250, 259, 278).
Released(js, j) == [js EXCEPT ![j].rel = Append(@, saved_printer.interface_number)]
ClaimedAfterRelease == claimed \ {saved_printer.interface_number}

\* return ret: the call is over.
Returned(js, j, ret) == [js EXCEPT ![j].ret = ret]

\* xSemaphoreTake(sem, pdMS_TO_TICKS(5000)) gives up when the semaphore is not
\* given within the timeout.
TakeTimesOut(count) == count = 0

\* Lines 196-211: entry and the not-ready checks.
JobCall ==
    /\ job.pc = "idle"
    /\ Len(jobs) < MaxJobs
    /\ IF NotReady(saved_printer)
       THEN /\ jobs' = Append(jobs, [NewJob EXCEPT
                                       !.ret = "ESP_ERR_INVALID_STATE",
                                       !.nulldev = (saved_printer.dev_hdl = NULL)])
            /\ job' = JobIdle
       ELSE /\ jobs' = Append(jobs, [NewJob EXCEPT
                                       !.nulldev = (saved_printer.dev_hdl = NULL)])
            /\ job' = [JobIdle EXCEPT !.pc = "claim"]
    /\ UNCHANGED <<scanvars, claimed, callback>>

\* Lines 212-222: claim the printer interface.
JobClaim(ret) ==
    /\ job.pc = "claim"
    /\ ret \in ClaimResults(saved_printer.interface_number)
    /\ IF ret # "ESP_OK"
       THEN /\ jobs' = Returned([jobs EXCEPT ![cur_job].claims = @ + 1], cur_job, ret)
            /\ job' = JobIdle
            /\ UNCHANGED claimed
       ELSE /\ jobs' = [jobs EXCEPT ![cur_job].claims = @ + 1,
                                    ![cur_job].holds = TRUE,
                                    ![cur_job].intf = saved_printer.interface_number]
            /\ claimed' = claimed \cup {saved_printer.interface_number}
            /\ job' = [job EXCEPT !.pc = "alloc"]
    /\ UNCHANGED <<scanvars, callback>>

\* Lines 224-231: allocate the transfer.
JobAlloc(ret) ==
    /\ job.pc = "alloc"
    /\ ret \in AllocErrors \cup {"ESP_OK"}
    /\ IF ret # "ESP_OK"
       THEN /\ jobs' = Returned(Released([jobs EXCEPT ![cur_job].allocs = @ + 1], cur_job),
                                cur_job, ret)
            /\ claimed' = ClaimedAfterRelease
            /\ job' = JobIdle
       ELSE /\ jobs' = [jobs EXCEPT ![cur_job].allocs = @ + 1,
                                    ![cur_job].xfer = "allocated"]
            /\ job' = [job EXCEPT !.pc = "submit"]
            /\ UNCHANGED claimed
    /\ UNCHANGED <<scanvars, callback>>

\* The same without the usb_host_transfer_free of line 249.
JobSubmit_nofree(ret) ==
    /\ job.pc = "submit"
    /\ ret \in SubmitErrors \cup {"ESP_OK"}
    /\ IF ret # "ESP_OK"
       THEN /\ jobs' = [jobs EXCEPT ![cur_job].submits = @ + 1]
            /\ job' = [job EXCEPT !.pc = "submitfailed", !.ret = ret]
       ELSE /\ jobs' = [jobs EXCEPT ![cur_job].submits = @ + 1,
                                    ![cur_job].ep = saved_printer.bulk_out_ep,
                                    ![cur_job].xfer = "submitted"]
            /\ job' = [job EXCEPT !.pc = "take"]
    /\ UNCHANGED <<scanvars, claimed, callback>>

\* Lines 233-254: set up and submit the transfer; a transfer refused is freed
\* (line 249).
JobSubmit(ret) ==
    /\ job.pc = "submit"
    /\ ret \in SubmitErrors \cup {"ESP_OK"}
    /\ IF ret # "ESP_OK"
       THEN /\ jobs' = [jobs EXCEPT ![cur_job].submits = @ + 1,
                                    ![cur_job].xfer = "freed",
                                    ![cur_job].frees = @ + 1]
            /\ job' = [job EXCEPT !.pc = "submitfailed", !.ret = ret]
       ELSE /\ jobs' = [jobs EXCEPT ![cur_job].submits = @ + 1,
                                    ![cur_job].ep = saved_printer.bulk_out_ep,
                                    ![cur_job].xfer = "submitted"]
            /\ job' = [job EXCEPT !.pc = "take"]
    /\ UNCHANGED <<scanvars, claimed, callback>>

\* Lines 250-251: the submit-failure path releases the interface and returns ret.
JobSubmitFailRelease ==
    /\ job.pc = "submitfailed"
    /\ jobs' = Returned(Released(jobs, cur_job), cur_job, job.ret)
    /\ claimed' = ClaimedAfterRelease
    /\ job' = JobIdle
    /\ UNCHANGED <<scanvars, callback>>

\* Line 257: xSemaphoreTake is entered on the handle saved_printer holds now.
JobTake ==
    /\ job.pc = "take"
    /\ job' = [job EXCEPT !.pc = "waiting",
                          !.wait_sem = saved_printer.transfer_done_sem]
    /\ jobs' = [jobs EXCEPT ![cur_job].takes = @ + 1,
                            ![cur_job].sem = saved_printer.transfer_done_sem]
    /\ UNCHANGED <<scanvars, claimed, callback>>

\* Lines 257, 263: the semaphore is taken within the timeout; return ESP_OK.
JobTakeOk ==
    /\ job.pc = "waiting"
    /\ job.wait_sem # NULL
    /\ sem_count[job.wait_sem] = 1
    /\ sem_count' = [sem_count EXCEPT ![job.wait_sem] = 0]
    /\ jobs' = Returned(jobs, cur_job, "ESP_OK")
    /\ job' = JobIdle
    /\ UNCHANGED <<saved_printer, scan, scan_ret, seen, nScans, copying, claimed, callback>>

\* Lines 257-258: the wait times out.
JobTakeTimeout ==
    /\ job.pc = "waiting"
    /\ job.wait_sem # NULL
    /\ TakeTimesOut(sem_count[job.wait_sem])
    /\ job' = [job EXCEPT !.pc = "timedout"]
    /\ UNCHANGED <<scanvars, jobs, claimed, callback>>

\* What xSemaphoreTake does with a NULL handle (a record read before line 185
\* stored its semaphore) is not defined: it never yields pdTRUE; it gives up as
\* on a semaphore never given, or it asserts or faults and the call never
\* returns.
NullTakeOutcomes == {"timedout", "fault"}

\* Line 257 on a NULL handle.
JobTakeNull(outcome) ==
    /\ job.pc = "waiting"
    /\ job.wait_sem = NULL
    /\ outcome \in NullTakeOutcomes
    /\ job' = [job EXCEPT !.pc = outcome]
    /\ UNCHANGED <<scanvars, jobs, claimed, callback>>

\* Lines 259-260: the timeout path releases the interface and returns.
JobTimeoutRelease ==
    /\ job.pc = "timedout"
    /\ jobs' = Returned(Released(jobs, cur_job), cur_job, "ESP_ERR_TIMEOUT")
    /\ claimed' = ClaimedAfterRelease
    /\ job' = JobIdle
    /\ UNCHANGED <<scanvars, callback>>

\* ---------------------------------------------- print_transfer_callback
\* The host invokes the callback at most once per submitted transfer, at any
\* time after the submit, from the task that handles the client's events: one
\* callback runs at a time.
\* Lines 266-275, for the transfer of job j: the status is logged and the
\* transfer freed.
PrintTransferCallback(j, status) ==
    /\ callback.pc = "idle"
    /\ j \in 1..Len(jobs)
    /\ jobs[j].xfer = "submitted"
    /\ status \in TransferStatuses
    /\ jobs' = [jobs EXCEPT ![j].status = status,
                            ![j].xfer = "freed",
                            ![j].frees = @ + 1]
    /\ callback' = [pc |-> "release", j |-> j]
    /\ UNCHANGED <<scanvars, job, claimed>>

\* Line 278: the interface saved_printer names now is released.
PrintTransferCallbackRelease ==
    /\ callback.pc = "release"
    /\ jobs' = Released(jobs, callback.j)
    /\ claimed' = ClaimedAfterRelease
    /\ callback' = [callback EXCEPT !.pc = "give"]
    /\ UNCHANGED <<scanvars, job>>

\* Lines 280-286: the semaphore saved_printer holds now, if any, is given.
PrintTransferCallbackGive ==
    /\ callback.pc = "give"
    /\ sem_count' = IF saved_printer.transfer_done_sem # NULL
                    THEN [sem_count EXCEPT ![saved_printer.transfer_done_sem] = 1]
                    ELSE sem_count
    /\ jobs' = [jobs EXCEPT ![callback.j].cb =
                   IF callback.j = cur_job /\ job.pc \in {"take", "waiting"}
                   THEN "before" ELSE "after"]
    /\ callback' = CallbackIdle
    /\ UNCHANGED <<saved_printer, scan, scan_ret, seen, nScans, copying, job, claimed>>

Init ==
    /\ saved_printer = EmptyPrinter
    /\ sem_count = <<>>
    /\ scan = ScanIdle
    /\ scan_ret = "none"
    /\ seen = SeenInit
    /\ nScans = 0
    /\ job = JobIdle
    /\ jobs = <<>>
    /\ claimed = {}
    /\ copying = NoCopy
    /\ callback = CallbackIdle

ScanCallAny ==
    \E dev_hdl \in DevHandles, client_hdl \in ClientHandles,
       got_config \in BOOLEAN, n \in 0..MaxIntf :
        ScanCall(dev_hdl, client_hdl, got_config, n)

ScanInterfaceAny ==
    \E intf_desc \in IntfDescs, created \in SemCreateResults :
        ScanInterface(intf_desc, created)

ScanInterfaceJob ==
    \E intf_desc \in JobIntfDescs, created \in SemCreateResults :
        ScanInterface(intf_desc, created)

StoreSavedPrinterAny == \E field \in Fields : StoreSavedPrinter(field)

JobClaimAny  == \E ret \in ClaimErrors \cup {"ESP_OK"} : JobClaim(ret)
JobAllocAny  == \E ret \in AllocErrors \cup {"ESP_OK"} : JobAlloc(ret)
JobSubmitAny == \E ret \in SubmitErrors \cup {"ESP_OK"} : JobSubmit(ret)
JobTakeNullAny == \E outcome \in NullTakeOutcomes : JobTakeNull(outcome)
CallbackAny  == \E j \in 1..MaxJobs, status \in TransferStatuses : PrintTransferCallback(j, status)

CallbackStep == CallbackAny \/ PrintTransferCallbackRelease \/ PrintTransferCallbackGive

JobStep ==
    \/ JobCall \/ JobClaimAny \/ JobAllocAny \/ JobSubmitAny \/ JobSubmitFailRelease
    \/ JobTake \/ JobTakeOk \/ JobTakeTimeout \/ JobTakeNullAny \/ JobTimeoutRelease

\* The scanner alone, over every interface descriptor of the domain.
NextScan == ScanCallAny \/ ScanInterfaceAny \/ StoreSavedPrinterAny \/ ScanReturn

\* A record an earlier scan saved: interface 1, bulk OUT 0x02, bulk IN 0x81.
EarlierPrinter ==
    [dev_hdl |-> 1, client_hdl |-> 1, interface_number |-> 1,
     bulk_out_ep |-> 2, bulk_in_ep |-> 129, transfer_done_sem |-> 1]

\* The last scan of the budget, called on the empty record or on an earlier one.
InitScan ==
    /\ \/ saved_printer = EmptyPrinter /\ sem_count = <<>>
       \/ saved_printer = EarlierPrinter /\ sem_count = <<0>>
    /\ scan = ScanIdle
    /\ scan_ret = "none"
    /\ seen = [SeenInit EXCEPT !.before = saved_printer]
    /\ nScans = MaxScans - 1
    /\ job = JobIdle
    /\ jobs = <<>>
    /\ claimed = {}
    /\ copying = NoCopy
    /\ callback = CallbackIdle

SpecScan == InitScan /\ [][NextScan]_vars

\* Scanner, print jobs and completion callbacks interleaved: the callers of
\* check_device_for_printer_interfaces and send_print_job are not part of the
\* file, and nothing in it orders a scan against a job.
Next ==
    \/ ScanCallAny \/ ScanInterfaceJob \/ StoreSavedPrinterAny \/ ScanReturn
    \/ JobStep
    \/ CallbackStep

Spec == Init /\ [][Next]_vars
\* The caller's task runs whenever it can, and the 5000 ms timeout of
\* xSemaphoreTake elapses; nothing obliges the host to deliver a callback.
SpecFair == Spec /\ WF_vars(JobStep)

\* The host delivers the completion callback of every submitted transfer,
\* and a callback that started runs to its end.
SpecFairCallback == SpecFair /\ WF_vars(CallbackStep)

\* ----------------------------------------------------------------- claims
JobIds == 1..Len(jobs)

\* Job j returns in this step.
Returns(j) ==
    /\ j \in 1..Len(jobs')
    /\ jobs'[j].ret # "none"
    /\ (j <= Len(jobs) => jobs[j].ret = "none")

\* C1: a send_print_job call whose wait timed out has its interface released at
\* most once in total, by the timeout path or by the completion callback of
\* its transfer, never by both.
C1_TimeoutReleasesAtMostOnce ==
    \A j \in JobIds :
        jobs[j].ret = "ESP_ERR_TIMEOUT" => Len(jobs[j].rel) <= 1

\* C2: when the submit succeeded and the completion callback ran with status
\* Completed before the timeout, the call returns ESP_OK, the interface has
\* been released exactly once, and the semaphore waited on is empty at return.
C2_CompletedJobReturnsOk ==
    [][\A j \in 1..MaxJobs :
         (/\ Returns(j)
          /\ jobs'[j].cb = "before"
          /\ jobs'[j].status = "USB_TRANSFER_STATUS_COMPLETED")
         => /\ jobs'[j].ret = "ESP_OK"
            /\ Len(jobs'[j].rel) = 1
            /\ sem_count'[jobs'[j].sem] = 0]_vars

\* C3: send_print_job returns ESP_OK only if the completion callback of its
\* own transfer ran within the timeout and recorded status Completed.
C3_OkOnlyWhenCompleted ==
    \A j \in JobIds :
        jobs[j].ret = "ESP_OK"
        => jobs[j].cb = "before" /\ jobs[j].status = "USB_TRANSFER_STATUS_COMPLETED"

\* C4: a send_print_job call made while saved_printer.dev_hdl is NULL returns
\* ESP_ERR_INVALID_STATE and makes no claim, allocate, submit, free or release
\* call on the host library and no wait on a semaphore.
C4_NotReadyMakesNoHostCall ==
    \A j \in JobIds :
        jobs[j].nulldev
        => /\ jobs[j].ret = "ESP_ERR_INVALID_STATE"
           /\ jobs[j].claims = 0 /\ jobs[j].allocs = 0 /\ jobs[j].submits = 0
           /\ jobs[j].frees = 0 /\ jobs[j].takes = 0 /\ jobs[j].rel = <<>>
           /\ ~jobs[j].holds /\ jobs[j].xfer = "none"

C4_Witness ==
    \E j \in JobIds : jobs[j].nulldev /\ jobs[j].ret = "ESP_ERR_INVALID_STATE"

\* C5: under fair scheduling of the caller and of the timeout, every call of
\* send_print_job returns, whether its completion callback runs before the
\* timeout, after it, or never.
C5_EveryCallReturns == (job.pc # "idle") ~> (job.pc = "idle")

\* C6: when send_print_job returns an error, at that moment the interface it
\* claimed has been released and the transfer it allocated has been freed.
C6_ErrorReturnHoldsNothing ==
    [][\A j \in 1..MaxJobs :
         (Returns(j) /\ jobs'[j].ret # "ESP_OK")
         => /\ jobs'[j].xfer \in {"none", "freed"}
            /\ (jobs'[j].holds
                => \E k \in 1..Len(jobs'[j].rel) : jobs'[j].rel[k] = jobs'[j].intf)]_vars
\* ---------------------------------------------------------- scanner claims
\* The scan has returned.
ScanDone == scan.pc = "idle" /\ scan_ret # "none"

\* C7: after the scan of a configuration descriptor holding exactly one
\* interface of class 0x07, which has a bulk-OUT endpoint, saved_printer holds
\* that endpoint's address and that interface's index, and a bulk-IN address
\* only if the interface has a bulk-IN endpoint.
C7_SinglePrinterInterfaceSaved ==
    (ScanDone /\ seen.config /\ seen.nclass7 = 1 /\ seen.last7.out # EP_UNSET)
    => /\ saved_printer.bulk_out_ep # EP_UNSET
       /\ saved_printer.bulk_out_ep = seen.last7.out
       /\ saved_printer.interface_number = seen.last7.idx
       /\ (saved_printer.bulk_in_ep # EP_UNSET => seen.last7.in # EP_UNSET)

\* C8: a scan of a configuration descriptor in which no interface has class
\* 0x07 returns false and leaves every field of saved_printer as it was when
\* the scan was called.
C8_NoPrinterClassNothingSaved ==
    /\ seen.nclass7 = 0 => saved_printer = seen.before /\ ~scan.is_printer
    /\ (ScanDone /\ seen.nclass7 = 0) => scan_ret = "false"

\* A finished scan that met an interface of another class with a bulk-OUT
\* endpoint and a non-zero protocol, over an earlier record.
C8_Witness ==
    /\ ScanDone /\ seen.config /\ seen.nclass7 = 0
    /\ seen.cur.ok /\ seen.cur.class = 8 /\ seen.cur.protocol # 0
    /\ seen.cur.out # EP_UNSET
    /\ saved_printer = EarlierPrinter /\ scan_ret = "false"

\* C9: processing an interface of class 0x07 that has no bulk-OUT endpoint
\* leaves saved_printer (and the semaphores) exactly as they were and starts
\* no copy into it; from the empty record, the record is still one
\* send_print_job rejects.
C9_NoBulkOutNothingSaved ==
    [][(/\ scan.pc = "loop" /\ scan'.pc = "loop" /\ scan'.i = scan.i + 1
        /\ seen'.cur.ok /\ seen'.cur.class = USB_CLASS_PRINTER
        /\ seen'.cur.out = EP_UNSET)
       => /\ saved_printer' = saved_printer
          /\ copying'.todo = {}
          /\ sem_count' = sem_count
          /\ (saved_printer = EmptyPrinter => NotReady(saved_printer'))]_vars

\* An interface of class 0x07 with a bulk-IN endpoint and no bulk-OUT endpoint
\* has just been handed to save_printer_endpoint_details, on the empty record.
C9_Witness ==
    /\ scan.pc = "loop" /\ scan.i = seen.cur.idx + 1 /\ scan.is_printer
    /\ seen.cur.ok /\ seen.cur.class = USB_CLASS_PRINTER /\ seen.cur.protocol # 0
    /\ seen.cur.out = EP_UNSET /\ seen.cur.in # EP_UNSET
    /\ copying.todo = {}
    /\ saved_printer = EmptyPrinter

\* C10: with both handles present and the configuration descriptor obtained,
\* the scan returns true if and only if at least one parsed interface has
\* class 0x07.
C10_TrueIffPrinterClassSeen ==
    (ScanDone /\ seen.config) => (scan_ret = "true" <=> seen.nclass7 > 0)

\* ------------------------------------------------ transfer coordinator claims
\* C11: the callback frees, releases and then signals, so whenever
\* send_print_job wakes with the semaphore taken and returns ESP_OK, the
\* interface that call claimed is no longer claimed.
C11_OkReturnFindsInterfaceReleased ==
    /\ [](callback.pc = "release" => jobs[callback.j].xfer = "freed")
    /\ [](callback.pc = "give" => /\ jobs[callback.j].xfer = "freed"
                                  /\ jobs[callback.j].rel # <<>>)
    /\ [][\A j \in 1..MaxJobs :
            (Returns(j) /\ jobs'[j].ret = "ESP_OK") => jobs'[j].intf \notin claimed']_vars

\* C12: the signal given by the completion callback of a transfer is consumed
\* by the wait of the call that submitted that transfer: a semaphore holds a
\* signal only while that call is still at its wait, and a call that returns
\* ESP_OK consumed the signal of its own callback.
C12_SignalConsumedByItsJob ==
    /\ \A h \in 1..Len(sem_count) :
         sem_count[h] = 1 => /\ job.pc \in {"take", "waiting"}
                             /\ jobs[cur_job].cb = "before"
    /\ \A j \in JobIds : jobs[j].ret = "ESP_OK" => jobs[j].cb = "before"

\* The transfers submitted whose completion callback has not run yet.
InFlight == {j \in JobIds : jobs[j].xfer = "submitted"}

\* C13: at most one submitted transfer whose completion callback has not yet
\* run exists at any time, also when send_print_job is called again after a
\* call that returned on timeout.
C13_AtMostOneInFlight == Cardinality(InFlight) <= 1

\* C14: after the scan of a configuration descriptor with several interfaces
\* of class 0x07, saved_printer describes the last of them (its index and its
\* bulk endpoints), whatever the earlier ones contained.
C14_LastPrinterInterfaceWins ==
    (ScanDone /\ seen.config /\ seen.nclass7 >= 2 /\ seen.last7.out # EP_UNSET)
    => /\ saved_printer.interface_number = seen.last7.idx
       /\ saved_printer.bulk_out_ep = seen.last7.out
       /\ saved_printer.bulk_in_ep = seen.last7.in

\* C15: a failed claim returns with no transfer allocated and no release call;
\* a failed allocation releases the claimed interface exactly once; a failed
\* submit frees the transfer exactly once and then releases the claimed
\* interface exactly once; in none of the three cases is the semaphore waited
\* on or the completion callback invoked.
C15_FailurePathsCleanUp ==
    \A j \in JobIds :
        /\ (jobs[j].ret # "none" /\ jobs[j].claims = 1 /\ ~jobs[j].holds)
           => /\ jobs[j].allocs = 0 /\ jobs[j].xfer = "none" /\ jobs[j].frees = 0
              /\ jobs[j].rel = <<>>
              /\ jobs[j].takes = 0 /\ jobs[j].cb = "none"
        /\ jobs[j].ret \in AllocErrors
           => /\ jobs[j].rel = <<jobs[j].intf>>
              /\ jobs[j].xfer = "none" /\ jobs[j].frees = 0 /\ jobs[j].submits = 0
              /\ jobs[j].takes = 0 /\ jobs[j].cb = "none"
        /\ jobs[j].ret \in SubmitErrors
           => /\ jobs[j].xfer = "freed" /\ jobs[j].frees = 1
              /\ jobs[j].rel = <<jobs[j].intf>>
              /\ jobs[j].takes = 0 /\ jobs[j].cb = "none"
        /\ (j = cur_job /\ job.pc = "submitfailed")
           => /\ jobs[j].xfer = "freed" /\ jobs[j].frees = 1 /\ jobs[j].rel = <<>>

\* C16: a save over a record that already owns a semaphore releases the old
\* semaphore before the new one is kept, so at most one transfer_done
\* semaphore is alive at any time.
C16_AtMostOneLiveSemaphore == Cardinality(LiveSems) <= 1

\* A record is complete: both handles, a bulk-OUT address with the direction
\* bit clear, a bulk-IN address unset or with the direction bit set, a semaphore.
FullyInitialised(printer) ==
    /\ printer.dev_hdl # NULL /\ printer.client_hdl # NULL
    /\ printer.bulk_out_ep # 255 /\ printer.bulk_out_ep < 128
    /\ (printer.bulk_in_ep = 255 \/ printer.bulk_in_ep >= 128)
    /\ printer.transfer_done_sem # NULL

\* C17: in every reachable state saved_printer is the empty initial record or
\* a fully initialised one, and no send_print_job call waits on a NULL
\* semaphore handle; the step of an interface whose semaphore could not be
\* created leaves saved_printer as it was, so from the empty record it stays
\* one send_print_job rejects.
C17_EmptyOrFullyInitialised ==
    /\ [](saved_printer = EmptyPrinter \/ FullyInitialised(saved_printer))
    /\ [](\A j \in JobIds : jobs[j].takes = 1 => jobs[j].sem # NULL)
    /\ [](saved_printer = EmptyPrinter => NotReady(saved_printer))
    /\ [][(/\ scan.pc = "loop" /\ scan'.i = scan.i + 1
           /\ seen'.cur.ok /\ seen'.cur.class = USB_CLASS_PRINTER
           /\ seen'.cur.out # EP_UNSET
           /\ sem_count' = sem_count)
          => saved_printer' = saved_printer /\ copying'.todo = {}]_vars

\* C18: while a submitted transfer's completion callback has not run, the
\* interface claimed for that transfer is still claimed and no release was
\* made for it.
C18_InFlightOnlyOnClaimedInterface ==
    \A j \in InFlight : jobs[j].rel = <<>> /\ jobs[j].intf \in claimed

\* C19: every transfer allocated is freed at most once, by the submit-failure
\* path or by its completion callback and never by both; and when the callback
\* of every submitted transfer eventually fires, every allocated transfer is
\* eventually freed.
C19_TransferFreedOnceAndEventually ==
    /\ [](\A j \in JobIds :
            /\ jobs[j].frees <= 1
            /\ (jobs[j].frees = 1 <=> jobs[j].xfer = "freed")
            /\ (jobs[j].ret \in SubmitErrors => jobs[j].cb = "none")
            /\ (jobs[j].cb # "none" => jobs[j].ret \notin SubmitErrors /\ jobs[j].frees = 1))
    /\ \A j \in 1..MaxJobs :
         (j <= Len(jobs) /\ jobs[j].xfer \in {"allocated", "submitted"})
         ~> (j <= Len(jobs) /\ jobs[j].xfer = "freed")

\* The transfer of one call was freed by its callback after the call had
\* returned on timeout, and the transfer of another by the submit-failure path.
C19_Witness ==
    /\ \E j \in JobIds : /\ jobs[j].ret = "ESP_ERR_TIMEOUT" /\ jobs[j].cb = "after"
                         /\ jobs[j].xfer = "freed" /\ jobs[j].frees = 1
    /\ \E j \in JobIds : /\ jobs[j].ret \in SubmitErrors
                         /\ jobs[j].xfer = "freed" /\ jobs[j].frees = 1

\* The completion callback of job j makes its release call (line 278) in this step.
CallbackReleases(j) ==
    callback.pc = "release" /\ callback.j = j /\ callback'.pc = "give"

\* The completion callback of job j passes lines 281-283 in this step.
CallbackGives(j) ==
    callback.pc = "give" /\ callback.j = j /\ callback'.pc = "idle"

\* C20: also when a scan overwrites saved_printer during a job, the callback
\* releases the interface number the job claimed and signals the semaphore
\* the job waits on, so a job whose callback ran before the timeout never
\* returns ESP_ERR_TIMEOUT.
C20_OverwriteKeepsInterfaceAndSemaphore ==
    /\ [][\A j \in 1..MaxJobs :
            /\ CallbackReleases(j)
               => jobs'[j].rel[Len(jobs'[j].rel)] = jobs[j].intf
            /\ (CallbackGives(j) /\ j = cur_job /\ job.pc = "waiting")
               => /\ job.wait_sem # NULL
                  /\ sem_count'[job.wait_sem] = 1]_vars
    /\ [](\A j \in JobIds : jobs[j].cb = "before" => jobs[j].ret # "ESP_ERR_TIMEOUT")
====
